---- MODULE Spec2Model ----
(***************************************************************************)
(* A model of protocol_v3: the WebSocket frame layer and the client stream *)
(* (src/src/server.rs) over the binary codec (src/src/protocol.rs and the  *)
(* derive macro, src/protocol_v3_macro/src/lib.rs).                        *)
(*                                                                         *)
(* Bytes are the integers 0..255, a Vec<u8> is a sequence of bytes.        *)
(***************************************************************************)
EXTENDS Integers, Sequences, FiniteSets, TLC

VARIABLES
    rx,          \* inbound bytes the peer has sent and the server has not consumed (self.rx)
    rxEof,       \* the peer has closed its side: reads past the end of rx hit EOF
    sent,        \* history: the chunks of frames the peer has sent, in order (its own description of them)
    wire,        \* history: every byte the peer has put on the wire
    taken,       \* history: how many frame reads (read_in) have returned Ok so far
    callFrom,    \* history: the value of taken when the current call started
    closed,      \* self.closed
    txShut,      \* the write half has been shut down (self.tx.shutdown())
    pc,          \* where the connection's owner is: "idle", "read", "shutdown", "panicked"
    final_data,  \* read(): the reassembly buffer of the call in progress
    drained,     \* shutdown(): iterations of the drain loop done so far
    trace,       \* history: what the current (or last) call did, in order
    result,      \* what the last completed call returned
    calls,       \* history: the calls made so far, in order ("read", "send", "shutdown")
    conn,        \* per raw connection: where it is ("none", "queued", "accepted"), the request
                 \* bytes its peer sends, how many of them have arrived, whether the peer has closed,
                 \* and (hs) what handshake comes to on the bytes that have arrived
    task,        \* per raw connection: its handshake task ("none", "running", "done" with its outcome)
    futures,     \* self.futures: the handshake tasks spawned and not yet joined
    apc,         \* where the caller of accept() is: "idle" or "accepting"
    returned,    \* history: what the accept() calls have returned, in order
    waits,       \* history: what the latest turn of the accept loop waited on
    acceptErrs,  \* history: how many times listener.accept() has failed
    acceptCalls, \* history: how many times accept() has been called
    frame_enum,  \* the enum #[derive(ProtocolFrame)] is applied to: its variants' field types
    codec,       \* what the derive macro came to for frame_enum (not run yet, generated, panicked)
    input,       \* the message to encode, or the payload to decode
    output       \* what encode and decode have returned for input

\* the state of one client stream
connVars == <<rx, rxEof, sent, wire, taken, callFrom, closed, txShut, pc, final_data,
              drained, trace, result, calls>>

\* the state of the server: listener, handshake tasks and accept loop
srvVars == <<conn, task, futures, apc, returned, waits, acceptErrs, acceptCalls>>

\* the state of the codec on its own
codecVars == <<frame_enum, codec, input, output>>

vars == <<rx, rxEof, sent, wire, taken, callFrom, closed, txShut, pc, final_data,
          drained, trace, result, calls,
          conn, task, futures, apc, returned, waits, acceptErrs, acceptCalls,
          frame_enum, codec, input, output>>

----------------------------------------------------------------------------
(* Bounds of the model *)

\* the peer sends at most this many chunks
MaxChunks == 3
\* the owner of the connection makes at most this many calls
MaxCalls == 2
\* at most this many raw connections reach the listener
MaxConns == 2
\* listener.accept() fails at most this many times
MaxAcceptErrs == 1
\* accept() is called at most this many times
MaxAccepts == 2

ConnIds == 1..MaxConns

\* no connection has reached the listener
NoConn == [st |-> "none", d |-> <<>>, req |-> <<>>, got |-> 0, eof |-> FALSE,
           hs |-> [st |-> "pending", resp |-> <<>>,
                   stream |-> [some |-> FALSE, path |-> <<>>, closed |-> FALSE]]]
\* no task has been spawned for the connection
NoTask == [st |-> "none", resp |-> <<>>, stream |-> [some |-> FALSE, path |-> <<>>, closed |-> FALSE]]
NoWait == [listener |-> FALSE, join |-> FALSE, len |-> 0]

\* nothing is being derived, encoded or decoded on its own
NotDerived == [st |-> "none", arms |-> <<>>, manifest |-> <<>>]
NoInput == [msg |-> [op |-> -1, args |-> <<>>], text |-> -1, raw |-> <<>>, keep |-> -1, junk |-> <<>>]
NoOutput == [stage |-> "none", enc |-> [pre |-> <<>>, run |-> 0, byte |-> 0],
             payload |-> [pre |-> <<>>, run |-> 0, byte |-> 0], dec |-> [ok |-> FALSE]]
CodecIdle ==
    /\ frame_enum = <<>>
    /\ codec = NotDerived
    /\ input = NoInput
    /\ output = NoOutput

\* WebSocketServer::new: a listener and an empty JoinSet
SrvInit ==
    /\ conn = [c \in ConnIds |-> NoConn]
    /\ task = [c \in ConnIds |-> NoTask]
    /\ futures = {}
    /\ apc = "idle"
    /\ returned = <<>>
    /\ waits = NoWait
    /\ acceptErrs = 0
    /\ acceptCalls = 0

----------------------------------------------------------------------------
(* Bytes and integers *)

\* const PAYLOAD_SIZE_CAP : u64 = 128
PAYLOAD_SIZE_CAP == 128

\* the drain loop of shutdown(): for _ in 0..10
DRAIN_MAX == 10

\* a u64 at or above this value is kept as this value (the model's integers
\* are 32 bits wide; such a length is only ever compared with the cap and
\* with 65535)
U64_SAT == 16777216

RECURSIVE xor_bits(_, _, _)
xor_bits(a, b, n) ==
    IF n = 0 THEN 0
    ELSE (((a % 2) + (b % 2)) % 2) + 2 * xor_bits(a \div 2, b \div 2, n - 1)

\* payloadbuf[i] ^ maskingkeybuf[i % 4] on two bytes
xor_u8(a, b) == xor_bits(a, b, 8)

\* u16::from_be_bytes
u16_from_be_bytes(b) == (b[1] * 256) + b[2]

\* u64::from_be_bytes, saturated at U64_SAT
u64_from_be_bytes(b) ==
    IF b[1] # 0 \/ b[2] # 0 \/ b[3] # 0 \/ b[4] # 0 \/ b[5] # 0
    THEN U64_SAT
    ELSE (b[6] * 65536) + (b[7] * 256) + b[8]

\* u16::to_be_bytes
u16_to_be_bytes(n) == << (n \div 256) % 256, n % 256 >>

\* (n as u64).to_be_bytes() for n < 2^31
u64_to_be_bytes(n) ==
    << 0, 0, 0, 0, (n \div 16777216) % 256, (n \div 65536) % 256,
       (n \div 256) % 256, n % 256 >>

RECURSIVE Flatten(_)
Flatten(ss) == IF ss = <<>> THEN <<>> ELSE Head(ss) \o Flatten(Tail(ss))

\* vec![b; n]
Fill(n, b) == [i \in 1..n |-> b]

----------------------------------------------------------------------------
(* Binary codec primitives: impl ProtocolSegment for u8, bool, u16, String *)

\* String::from_utf8 succeeds on these bytes
RECURSIVE from_utf8_ok(_)
from_utf8_ok(b) ==
    LET n == Len(b)
        cont(i) == i <= n /\ b[i] >= 128 /\ b[i] <= 191
        rest(k) == from_utf8_ok(SubSeq(b, k + 1, n))
    IN  IF \A i \in 1..n : b[i] < 128 THEN TRUE
        ELSE IF b[1] < 128 THEN rest(1)
        ELSE IF b[1] >= 194 /\ b[1] <= 223 THEN cont(2) /\ rest(2)
        ELSE IF b[1] = 224 THEN cont(2) /\ b[2] >= 160 /\ cont(3) /\ rest(3)
        ELSE IF b[1] = 237 THEN cont(2) /\ b[2] <= 159 /\ cont(3) /\ rest(3)
        ELSE IF b[1] >= 225 /\ b[1] <= 239 THEN cont(2) /\ cont(3) /\ rest(3)
        ELSE IF b[1] = 240 THEN cont(2) /\ b[2] >= 144 /\ cont(3) /\ cont(4) /\ rest(4)
        ELSE IF b[1] >= 241 /\ b[1] <= 243 THEN cont(2) /\ cont(3) /\ cont(4) /\ rest(4)
        ELSE IF b[1] = 244 THEN cont(2) /\ b[2] <= 143 /\ cont(3) /\ cont(4) /\ rest(4)
        ELSE FALSE

\* ProtocolSegment::encode of a value v of the type named ty
protocol_encode(ty, v) ==
    CASE ty = "u8"     -> << v >>
      [] ty = "bool"   -> << IF v THEN 1 ELSE 0 >>
      [] ty = "u16"    -> u16_to_be_bytes(v)
      [] ty = "String" -> u16_to_be_bytes(Len(v) % 65536) \o v

DecErr == [ok |-> FALSE]
DecOk(v, rest) == [ok |-> TRUE, val |-> v, rest |-> rest]

\* ProtocolSegment::decode of the type named ty from the front of data
protocol_decode(ty, data) ==
    CASE ty = "u8" ->
           IF Len(data) < 1 THEN DecErr ELSE DecOk(data[1], Tail(data))
      [] ty = "bool" ->
           IF Len(data) < 1 THEN DecErr ELSE DecOk(data[1] = 1, Tail(data))
      [] ty = "u16" ->
           IF Len(data) < 2 THEN DecErr
           ELSE DecOk(u16_from_be_bytes(data), SubSeq(data, 3, Len(data)))
      [] ty = "String" ->
           IF Len(data) < 2 THEN DecErr
           ELSE LET len == u16_from_be_bytes(data)
                    body == SubSeq(data, 3, Len(data))
                IN  IF Len(body) >= len
                    THEN IF from_utf8_ok(SubSeq(body, 1, len))
                         THEN DecOk(SubSeq(body, 1, len), SubSeq(body, len + 1, Len(body)))
                         ELSE DecErr
                    ELSE DecErr

----------------------------------------------------------------------------
(* Tagged-union frame codec: what #[derive(ProtocolFrame)] generates for    *)
(* an enum.  A schema is the sequence of the enum's variants, each the     *)
(* sequence of its field types; a message is [op, args] with op the index  *)
(* of its variant counted from 0.                                          *)

\* enum Demo { Ping, Move(u8, bool), Chat(String) }
Schema == << <<>>, <<"u8", "bool">>, <<"String">> >>

\* (mutant) the cap is hit one variant earlier
CapHit_early(identi) == identi = 254

\* if identi == 255 { panic!("At the moment, there is a hard cap of 255 frame types!") }
CapHit(identi) == identi = 255

\* the value of identi when the loops of protocol_frame_derive come to the
\* k-th variant (k from 1): let mut identi : u8 = 0, then identi += 1 at
\* the end of every turn
identi_at(k) == (k - 1) % 256

\* the first loop of protocol_frame_derive: an encoder arm and a decoder
\* arm per variant, both with the current identi, then the test of the cap
derive_arms(variants) ==
    IF \E k \in 1..Len(variants) : CapHit(identi_at(k))
    THEN [panic |-> TRUE, arms |-> <<>>]
    ELSE [panic |-> FALSE,
          arms |-> [k \in 1..Len(variants) |->
                      [variant |-> k - 1, identi |-> identi_at(k)]]]

\* the second loop: one operation of the manifest per variant, with its
\* own identi counted up from 0
derive_manifest(variants) ==
    [k \in 1..Len(variants) |->
       [name |-> k - 1, opcode |-> identi_at(k), args |-> variants[k]]]

\* protocol_frame_derive on an enum with these variants
protocol_frame_derive(variants) ==
    LET a == derive_arms(variants)
    IN  IF a.panic THEN [st |-> "panic", arms |-> <<>>, manifest |-> <<>>]
        ELSE [st |-> "ok", arms |-> a.arms, manifest |-> derive_manifest(variants)]

RECURSIVE encode_fields(_, _)
encode_fields(tys, args) ==
    IF tys = <<>> THEN <<>>
    ELSE protocol_encode(Head(tys), Head(args)) \o encode_fields(Tail(tys), Tail(args))

\* the generated encode: ret.push(identi), then each field in order
encode(schema, m) ==
    << protocol_frame_derive(schema).arms[m.op + 1].identi >>
    \o encode_fields(schema[m.op + 1], m.args)

RECURSIVE decode_fields(_, _, _)
decode_fields(tys, data, acc) ==
    IF tys = <<>> THEN [ok |-> TRUE, args |-> acc]
    ELSE LET r == protocol_decode(Head(tys), data)
         IN  IF r.ok THEN decode_fields(Tail(tys), r.rest, Append(acc, r.val))
             ELSE [ok |-> FALSE]

\* (mutant) an opcode beyond the last variant wraps around to a variant
decode_wrapping(schema, data) ==
    IF data = <<>> THEN [ok |-> FALSE] ELSE
    LET arms == protocol_frame_derive(schema).arms
        hit  == { k \in 1..Len(arms) : arms[k].identi = data[1] % Len(arms) }
    IN  IF hit = {} THEN [ok |-> FALSE]
        ELSE LET k == CHOOSE x \in hit : \A y \in hit : x <= y
                 r == decode_fields(schema[k], Tail(data), <<>>)
             IN  IF r.ok THEN [ok |-> TRUE, msg |-> [op |-> arms[k].variant, args |-> r.args]]
                 ELSE [ok |-> FALSE]

\* the generated decode: match data.pop_front() { Some(identi) => ..., _ => Err }
decode(schema, data) ==
    IF data = <<>> THEN [ok |-> FALSE] ELSE
    LET arms == protocol_frame_derive(schema).arms
        hit  == { k \in 1..Len(arms) : arms[k].identi = data[1] }
    IN  IF hit = {} THEN [ok |-> FALSE]
        ELSE LET k == CHOOSE x \in hit : \A y \in hit : x <= y
                 r == decode_fields(schema[k], Tail(data), <<>>)
             IN  IF r.ok THEN [ok |-> TRUE, msg |-> [op |-> arms[k].variant, args |-> r.args]]
                 ELSE [ok |-> FALSE]

----------------------------------------------------------------------------
(* The peer: the frames a client puts on the wire (RFC 6455 layout).  A    *)
(* frame description d has: fin, opcode, masked, form (7, 16 or 64: which  *)
(* length form the header uses), len (the declared payload length), key    *)
(* (the masking key, empty when unmasked) and payload (the plain payload   *)
(* bytes that follow, possibly fewer than declared).                       *)

MaskKey == <<17, 34, 51, 68>>
AltKey  == <<255, 0, 170, 85>>

\* the payload as the client sends it: byte i XOR key[i mod 4]
ClientMask(payload, key) ==
    IF key = <<>> THEN payload
    ELSE [i \in 1..Len(payload) |-> xor_u8(payload[i], key[((i - 1) % 4) + 1])]

\* the bytes of one frame on the wire
ClientBytes(d) ==
    << (IF d.fin THEN 128 ELSE 0) + d.opcode,
       (IF d.masked THEN 128 ELSE 0)
         + (IF d.form = 16 THEN 126 ELSE IF d.form = 64 THEN 127 ELSE d.len) >>
    \o (IF d.form = 16 THEN u16_to_be_bytes(d.len)
        ELSE IF d.form = 64 THEN u64_to_be_bytes(d.len) ELSE <<>>)
    \o d.key
    \o ClientMask(d.payload, d.key)

Frame(fin, opcode, payload) ==
    [fin |-> fin, opcode |-> opcode, masked |-> TRUE, form |-> 7,
     len |-> Len(payload), key |-> MaskKey, payload |-> payload]

\* a frame the server must accept: masked, complete, within the cap, with
\* an opcode of the supported subset
GoodFrame(d) ==
    /\ d.masked
    /\ d.len <= PAYLOAD_SIZE_CAP
    /\ Len(d.payload) = d.len
    /\ d.opcode \in {0, 2, 8, 9, 10}

IsData(d) == d.opcode \in {0, 2}

\* what the peer may send in one go: one frame, or several back to back
PeerChunks ==
    { << Frame(TRUE, 2, <<0>>) >>,                       \* Ping, in one frame
      << [Frame(FALSE, 2, <<1, 7>>) EXCEPT !.key = AltKey] >>,  \* Move(7, true), first fragment
      << Frame(TRUE, 0, <<1>>) >>,                       \* .. and its last fragment
      << Frame(TRUE, 9, <<>>), Frame(TRUE, 10, <<5>>) >>,  \* a ping, then a pong
      << Frame(TRUE, 8, <<>>) >>,                        \* close
      << Frame(TRUE, 1, <<0>>) >>,                       \* text
      << [Frame(TRUE, 2, <<0>>) EXCEPT !.masked = FALSE, !.key = <<>>] >>,  \* unmasked
      \* a header declaring one byte more than the cap, and no payload yet
      << [Frame(TRUE, 2, <<>>) EXCEPT !.form = 16, !.len = PAYLOAD_SIZE_CAP + 1] >>,
      \* as many pings as shutdown() is willing to drain
      [i \in 1..DRAIN_MAX |-> Frame(TRUE, 9, <<>>)] }

RECURSIVE WireBytes(_)
WireBytes(ds) == IF ds = <<>> THEN <<>> ELSE ClientBytes(Head(ds)) \o WireBytes(Tail(ds))

----------------------------------------------------------------------------
(* WebSocket frame layer: IncomingWebSocketFrame::read_in                   *)

\* (mutant) the end of the stream is never noticed
read_exact_noeof(s, eof, pos, n) ==
    IF Len(s) - pos >= n THEN "ok" ELSE "pending"

\* rx.read_exact(buf) of n bytes at offset pos of the stream s: "ok", or
\* "eof" (the stream ended first), or "pending" (the bytes have not come)
read_exact(s, eof, pos, n) ==
    IF Len(s) - pos >= n THEN "ok" ELSE IF eof THEN "eof" ELSE "pending"

\* (mutant) the test looks at bit 6
MaskUnset_bit6(b1) == (b1 % 128) < 64

\* headp1buf[1] & 0b10000000 == 0
MaskUnset(b1) == b1 < 128

\* (mutant) the cap itself is refused
OverCap_atcap(payload_len) == payload_len >= PAYLOAD_SIZE_CAP

\* payload_len > PAYLOAD_SIZE_CAP
OverCap(payload_len) == payload_len > PAYLOAD_SIZE_CAP

\* payloadbuf[i] = payloadbuf[i] ^ maskingkeybuf[i % 4], i from 0
Unmask(payloadbuf, maskingkeybuf) ==
    [i \in 1..Len(payloadbuf) |->
        xor_u8(payloadbuf[i], maskingkeybuf[((i - 1) % 4) + 1])]

FrameErr(why, used, alloc) ==
    [st |-> "err", kind |-> "", data |-> <<>>, why |-> why, used |-> used,
     alloc |-> alloc]
FrameOk(kind, data, used, alloc) ==
    [st |-> "ok", kind |-> kind, data |-> data, why |-> "", used |-> used,
     alloc |-> alloc]

\* a read_exact that did not return Ok: the future stays pending, or the
\* stream is at EOF and whatever was left of it has been consumed
NotRead(r, s, alloc) ==
    IF r = "pending"
    THEN [st |-> "pending", kind |-> "", data |-> <<>>, why |-> "", used |-> 0,
          alloc |-> alloc]
    ELSE FrameErr("eof", Len(s), alloc)

\* the opcode tests at the end of read_in: the variant returned, "" for Err
Classify(opcode, fin) ==
    IF opcode = 9 THEN "Ping"
    ELSE IF opcode = 10 THEN "Pong"
    ELSE IF opcode = 2 \/ opcode = 0
         THEN IF fin THEN "DataFin" ELSE "DataUnfin"
    ELSE IF opcode = 8 THEN "Close"
    ELSE ""

\* read_in on the stream s: st is "ok" (kind, data), "err" (why) or
\* "pending"; used is the number of bytes taken off the stream, alloc the
\* size of payloadbuf (-1 when it was never allocated)
read_in(s, eof) ==
    LET r1 == read_exact(s, eof, 0, 2) IN
    IF r1 # "ok" THEN NotRead(r1, s, -1) ELSE
    LET opcode == s[1] % 16
        fin    == s[1] >= 128
    IN
    IF MaskUnset(s[2]) THEN FrameErr("unmasked", 2, -1) ELSE
    LET len7 == s[2] % 128
        extn == IF len7 = 126 THEN 2 ELSE IF len7 = 127 THEN 8 ELSE 0
        r2   == read_exact(s, eof, 2, extn)
    IN
    IF r2 # "ok" THEN NotRead(r2, s, -1) ELSE
    LET payload_len ==
            IF len7 = 126 THEN u16_from_be_bytes(SubSeq(s, 3, 4))
            ELSE IF len7 = 127 THEN u64_from_be_bytes(SubSeq(s, 3, 10))
            ELSE len7
        r3 == read_exact(s, eof, 2 + extn, 4)
    IN
    IF r3 # "ok" THEN NotRead(r3, s, -1) ELSE
    LET maskingkeybuf == SubSeq(s, 3 + extn, 6 + extn)
        hdr == 6 + extn
    IN
    IF OverCap(payload_len) THEN FrameErr("oversize", hdr, -1) ELSE
    LET r4 == read_exact(s, eof, hdr, payload_len) IN
    IF r4 # "ok" THEN NotRead(r4, s, payload_len) ELSE
    LET payloadbuf == Unmask(SubSeq(s, hdr + 1, hdr + payload_len), maskingkeybuf)
        kind == Classify(opcode, fin)
        used == hdr + payload_len
    IN
    IF kind = "" THEN FrameErr("opcode", used, payload_len)
    ELSE FrameOk(kind, IF kind \in {"DataFin", "DataUnfin"} THEN payloadbuf ELSE <<>>,
                 used, payload_len)

----------------------------------------------------------------------------
(* The write half.  tx.write(buf) returns Ok(n) with n <= buf.len() bytes   *)
(* written, or Err; after tx.shutdown() every write fails.                  *)

WriteErr == [res |-> "err", n |-> 0]
WriteOk(n) == [res |-> "ok", n |-> n]

WriteResults(buf) ==
    IF txShut THEN {WriteErr}
    ELSE {WriteErr, WriteOk(Len(buf))}
         \cup {WriteOk(k) : k \in {1, Len(buf) - 1} \cap (1..(Len(buf) - 1))}

\* trace entries
EvWrite(buf, w) == [e |-> "write", buf |-> buf, res |-> w.res, n |-> w.n]
EvShutdownTx    == [e |-> "shutdown_tx"]
EvReadIn(f)     == [e |-> "read_in", st |-> f.st, kind |-> f.kind, data |-> f.data,
                    why |-> f.why, used |-> f.used, alloc |-> f.alloc]
EvDecode(data)  == [e |-> "decode", data |-> data]
EvEncode(data)  == [e |-> "encode", data |-> data]

\* send_close: self.tx.write(&[0x8, 0x0])
CloseFrameBytes == <<8, 0>>

\* send_close: let _ = self.tx.write(..).await: the write is made and its
\* result, whichever it is, is dropped
EvSendClose == [e |-> "write", buf |-> CloseFrameBytes, res |-> "dropped", n |-> 0]

----------------------------------------------------------------------------
(* Client stream: WebSocketClientStream::read                               *)

\* no call has returned since the last one started
Running == [op |-> "none"]

Init ==
    /\ rx = <<>>
    /\ rxEof = FALSE
    /\ sent = <<>>
    /\ wire = <<>>
    /\ taken = 0
    /\ callFrom = 0
    /\ closed = FALSE
    /\ txShut = FALSE
    /\ pc = "idle"
    /\ final_data = <<>>
    /\ drained = 0
    /\ trace = <<>>
    /\ result = Running
    /\ calls = <<>>
    /\ SrvInit
    /\ CodecIdle

CanCall == pc = "idle" /\ Len(calls) < MaxCalls

\* (mutant) the buffer of the previous call is kept
stale_final_data == final_data

\* let mut final_data : Vec<u8> = vec![]
fresh_final_data == <<>>

\* (mutant) the fragment replaces the buffer
Accumulate_replace(buf, data) == data

\* final_data.append(&mut data)
Accumulate(buf, data) == buf \o data

\* (mutant) a ping ends the loop as well
ReadBreaks_ping(kind) == kind \in {"DataFin", "Ping"}

\* the match arms of read(): does the loop end after a frame of this kind
ReadBreaks(kind) == kind = "DataFin"

\* ProtocolFrame::decode(final_data.into()) and the match on its result
ReadResult(data) ==
    LET d == decode(Schema, data)
    IN  IF d.ok THEN [op |-> "read", some |-> TRUE, msg |-> d.msg]
        ELSE [op |-> "read", some |-> FALSE, why |-> "decode"]

\* read() is called
ReadCall ==
    /\ CanCall
    /\ pc' = "read"
    /\ calls' = Append(calls, "read")
    /\ final_data' = fresh_final_data
    /\ trace' = <<>>
    /\ result' = Running
    /\ callFrom' = taken
    /\ UNCHANGED srvVars
    /\ UNCHANGED codecVars
    /\ UNCHANGED <<rx, rxEof, sent, wire, taken, closed, txShut, drained>>

\* one turn of read()'s loop: read_in(&mut self.rx).await.ok()?, then the match
ReadFrame ==
    /\ pc = "read"
    /\ LET f == read_in(rx, rxEof) IN
       /\ f.st # "pending"
       /\ rx' = SubSeq(rx, f.used + 1, Len(rx))
       /\ IF f.st = "err"
          THEN /\ result' = [op |-> "read", some |-> FALSE, why |-> f.why]
               /\ pc' = "idle"
               /\ trace' = Append(trace, EvReadIn(f))
               /\ UNCHANGED <<taken, closed, final_data>>
          ELSE /\ taken' = taken + 1
               /\ closed' = (closed \/ f.kind = "Close")
               /\ final_data' =
                     IF f.kind \in {"DataFin", "DataUnfin"}
                     THEN Accumulate(final_data, f.data) ELSE final_data
               /\ trace' = trace \o << EvReadIn(f) >>
                     \o (IF f.kind = "Close" THEN << EvSendClose >> ELSE <<>>)
                     \o (IF ReadBreaks(f.kind)
                         THEN << EvDecode(final_data') >> ELSE <<>>)
               /\ IF ReadBreaks(f.kind)
                  THEN /\ result' = ReadResult(final_data')
                       /\ pc' = "idle"
                  ELSE UNCHANGED <<result, pc>>
    /\ UNCHANGED srvVars
    /\ UNCHANGED codecVars
    /\ UNCHANGED <<rxEof, sent, wire, callFrom, txShut, drained, calls>>

----------------------------------------------------------------------------
(* WebSocketClientStream::send                                              *)

\* the header send() builds for an encoded message of len bytes: the bytes
\* of headerbuf, or a panic (an index past the end of headerbuf)
send_header(len) ==
    LET ext_len   == len > 125
        ext_len_2 == len > 65535
        size      == IF ext_len_2 THEN 20 ELSE IF ext_len THEN 4 ELSE 2
        b1        == IF ext_len_2 THEN 127 ELSE IF ext_len THEN 126 ELSE len % 256
        bytes     == u64_to_be_bytes(len)
        \* for i in 0..k { headerbuf[2 + i] = bytes[i] }
        fits(k)   == 2 + (k - 1) < size
        ext(k)    == [j \in 1..size |->
                        IF j = 1 THEN 130 ELSE IF j = 2 THEN b1
                        ELSE IF j - 2 <= k THEN bytes[j - 2] ELSE 0]
    IN  IF ext_len_2
        THEN IF fits(8) THEN [panic |-> FALSE, buf |-> ext(8)] ELSE [panic |-> TRUE]
        ELSE IF ext_len
        THEN IF fits(4) THEN [panic |-> FALSE, buf |-> ext(4)] ELSE [panic |-> TRUE]
        ELSE [panic |-> FALSE, buf |-> ext(0)]

\* the messages the owner sends: encoded lengths 3 and 126
Messages ==
    { [op |-> 1, args |-> <<7, TRUE>>],
      [op |-> 2, args |-> << Fill(123, 97) >>] }

\* send() on the encoded message data
SendData(data) ==
    /\ CanCall
    /\ calls' = Append(calls, "send")
    /\ callFrom' = taken
    /\ LET h == send_header(Len(data)) IN
       IF h.panic
       THEN /\ pc' = "panicked"
            /\ trace' = << EvEncode(data) >>
            /\ result' = [op |-> "send", st |-> "panic"]
       ELSE /\ pc' = "idle"
            /\ \E wh \in WriteResults(h.buf), wp \in WriteResults(data) :
                  IF wh.res = "err"
                  THEN /\ trace' = << EvEncode(data), EvWrite(h.buf, wh) >>
                       /\ result' = [op |-> "send", st |-> "err"]
                  ELSE /\ trace' = << EvEncode(data), EvWrite(h.buf, wh),
                                        EvWrite(data, wp) >>
                       /\ result' = [op |-> "send",
                                     st |-> IF wp.res = "err" THEN "err" ELSE "ok"]
    /\ UNCHANGED srvVars
    /\ UNCHANGED codecVars
    /\ UNCHANGED <<rx, rxEof, sent, wire, taken, closed, txShut, final_data, drained>>

Send == \E m \in Messages : SendData(encode(Schema, m))

----------------------------------------------------------------------------
(* WebSocketClientStream::shutdown                                          *)

\* (mutant) shutdown() does not look at the flag
ShutdownActs_always == TRUE

\* (mutant) shutdown() never does anything
ShutdownActs_never == FALSE

\* if !self.closed
ShutdownActs == ~closed

\* (mutant) the drain loop goes on after a close frame
DrainBreaks_err(f) == f.st = "err"

\* the match in the drain loop: does the loop end after this frame read
DrainBreaks(f) == f.st = "err" \/ f.kind = "Close"

\* shutdown() is called: send_close, tx.shutdown, then the drain loop
ShutdownCall ==
    /\ CanCall
    /\ calls' = Append(calls, "shutdown")
    /\ callFrom' = taken
    /\ drained' = 0
    /\ IF ShutdownActs
       THEN /\ trace' = << EvSendClose, EvShutdownTx >>
            /\ txShut' = TRUE
            /\ pc' = "shutdown"
            /\ result' = Running
       ELSE /\ trace' = <<>>
            /\ result' = [op |-> "shutdown"]
            /\ UNCHANGED <<txShut, pc>>
    /\ UNCHANGED srvVars
    /\ UNCHANGED codecVars
    /\ UNCHANGED <<rx, rxEof, sent, wire, taken, closed, final_data>>

\* one turn of the drain loop
ShutdownFrame ==
    /\ pc = "shutdown"
    /\ LET f == read_in(rx, rxEof) IN
       /\ f.st # "pending"
       /\ rx' = SubSeq(rx, f.used + 1, Len(rx))
       /\ taken' = IF f.st = "ok" THEN taken + 1 ELSE taken
       /\ trace' = Append(trace, EvReadIn(f))
       /\ drained' = drained + 1
       /\ IF DrainBreaks(f) \/ drained + 1 >= DRAIN_MAX
          THEN /\ pc' = "idle"
               /\ result' = [op |-> "shutdown"]
          ELSE UNCHANGED <<pc, result>>
    /\ UNCHANGED srvVars
    /\ UNCHANGED codecVars
    /\ UNCHANGED <<rxEof, sent, wire, callFrom, closed, txShut, final_data, calls>>

----------------------------------------------------------------------------
(* The peer *)

PeerSend ==
    /\ ~rxEof
    /\ Len(sent) < MaxChunks
    /\ \E c \in PeerChunks :
          /\ rx' = rx \o WireBytes(c)
          /\ wire' = wire \o WireBytes(c)
          /\ sent' = Append(sent, c)
    /\ UNCHANGED srvVars
    /\ UNCHANGED codecVars
    /\ UNCHANGED <<rxEof, taken, callFrom, closed, txShut, pc, final_data,
                   drained, trace, result, calls>>

PeerClose ==
    /\ ~rxEof
    /\ rxEof' = TRUE
    /\ UNCHANGED srvVars
    /\ UNCHANGED codecVars
    /\ UNCHANGED <<rx, sent, wire, taken, callFrom, closed, txShut, pc, final_data,
                   drained, trace, result, calls>>

Next ==
    \/ ReadCall
    \/ ReadFrame
    \/ Send
    \/ ShutdownCall
    \/ ShutdownFrame
    \/ PeerSend
    \/ PeerClose

Spec == Init /\ [][Next]_vars

\* shutdown on its own: the caller only shuts the connection down, any
\* number of times, while the peer goes on sending and closing
DrainNext ==
    \/ ShutdownCall
    \/ ShutdownFrame
    \/ PeerSend
    \/ PeerClose

\* the drain loop's next read runs whenever the bytes it waits for are
\* there: the runtime polls a task that is ready
FairSpec == Init /\ [][DrainNext]_vars /\ WF_vars(ShutdownFrame)

----------------------------------------------------------------------------
(* read_in on its own: one frame read from a stream that holds the first    *)
(* bytes of one frame, for every header shape and every place the stream   *)
(* can stop                                                                *)

\* the stream is cut after each of its first CutMax bytes, and at its end
CutMax == 14

FrameOpcodes == {0, 1, 2, 3, 8, 9, 10, 15}

\* <<form, declared length>>
LenForms ==
    { <<7, 0>>, <<7, 3>>, <<7, 125>>,
      <<16, 3>>, <<16, 126>>, <<16, PAYLOAD_SIZE_CAP>>, <<16, PAYLOAD_SIZE_CAP + 1>>,
      <<16, 65535>>,
      <<64, 3>>, <<64, PAYLOAD_SIZE_CAP>>, <<64, PAYLOAD_SIZE_CAP + 1>>,
      <<64, 65536>>, <<64, U64_SAT>> }

\* payload bytes that differ from place to place
Pattern(n) == [i \in 1..n |-> (i * 37) % 256]

Min(a, b) == IF a < b THEN a ELSE b

\* the peer never ships more than one byte beyond the cap
FrameDescs ==
    { [fin |-> fin, opcode |-> op, masked |-> m, form |-> lf[1], len |-> lf[2],
       key |-> IF m THEN MaskKey ELSE <<>>,
       payload |-> Pattern(Min(lf[2], PAYLOAD_SIZE_CAP + 1))] :
         fin \in BOOLEAN, op \in FrameOpcodes, m \in BOOLEAN, lf \in LenForms }

Cuts(n) == { k \in 0..n : k <= CutMax \/ k >= n - 1 }

FrameInit ==
    /\ \E d \in FrameDescs :
          /\ sent = << << d >> >>
          /\ \E k \in Cuts(Len(ClientBytes(d))) : wire = SubSeq(ClientBytes(d), 1, k)
    /\ rx = wire
    /\ rxEof \in BOOLEAN
    /\ taken = 0
    /\ callFrom = 0
    /\ closed = FALSE
    /\ txShut = FALSE
    /\ pc = "idle"
    /\ final_data = <<>>
    /\ drained = 0
    /\ trace = <<>>
    /\ result = Running
    /\ calls = <<>>
    /\ SrvInit
    /\ CodecIdle

\* IncomingWebSocketFrame::read_in(&mut rx).await, once
FrameRead ==
    /\ trace = <<>>
    /\ LET f == read_in(rx, rxEof) IN
       /\ f.st # "pending"
       /\ rx' = SubSeq(rx, f.used + 1, Len(rx))
       /\ taken' = IF f.st = "ok" THEN taken + 1 ELSE taken
       /\ trace' = << EvReadIn(f) >>
    /\ UNCHANGED srvVars
    /\ UNCHANGED codecVars
    /\ UNCHANGED <<rxEof, sent, wire, callFrom, closed, txShut, pc, final_data,
                   drained, result, calls>>

FrameNext == FrameRead \/ PeerClose

FrameSpec == FrameInit /\ [][FrameNext]_vars

----------------------------------------------------------------------------
(* send() on its own, for encoded messages of every length class *)

SendLens == {0, 1, 125, 126, 127, 65535, 65536, 65537}

RawData == { Fill(n, b) : n \in SendLens, b \in {7, 200} }

SendRaw == \E data \in RawData : SendData(data)

SendSpec == Init /\ [][SendRaw]_vars

----------------------------------------------------------------------------
(* Text.  A String is the sequence of its bytes; every request the model   *)
(* sends is ASCII.                                                         *)

\* char::is_whitespace on an ASCII byte
IsSpace(b) == b \in {9, 10, 11, 12, 13, 32}

RECURSIVE trim_start(_)
trim_start(s) == IF s # <<>> /\ IsSpace(Head(s)) THEN trim_start(Tail(s)) ELSE s

RECURSIVE trim_end(_)
trim_end(s) ==
    IF s # <<>> /\ IsSpace(s[Len(s)]) THEN trim_end(SubSeq(s, 1, Len(s) - 1)) ELSE s

\* str::trim
trim(s) == trim_end(trim_start(s))

\* (mutant) the case of the text is kept
to_lowercase_keep(s) == s

\* str::to_lowercase
to_lowercase(s) ==
    [i \in 1..Len(s) |-> IF s[i] >= 65 /\ s[i] <= 90 THEN s[i] + 32 ELSE s[i]]

\* str::contains
contains(s, pat) ==
    \E i \in 0..(Len(s) - Len(pat)) : SubSeq(s, i + 1, i + Len(pat)) = pat

\* the string literals the handshake compares with
S_HTTP11 == <<72, 84, 84, 80, 47, 49, 46, 49>>  \* "HTTP/1.1"
S_manifest == <<47, 109, 97, 110, 105, 102, 101, 115, 116>>  \* "/manifest"
S_connection == <<99, 111, 110, 110, 101, 99, 116, 105, 111, 110>>  \* "connection"
S_upgrade == <<117, 112, 103, 114, 97, 100, 101>>  \* "upgrade"
S_websocket == <<119, 101, 98, 115, 111, 99, 107, 101, 116>>  \* "websocket"
S_sec_websocket_version == <<115, 101, 99, 45, 119, 101, 98, 115, 111, 99, 107, 101, 116, 45, 118, 101, 114, 115, 105, 111, 110>>  \* "sec-websocket-version"
S_sec_websocket_key == <<115, 101, 99, 45, 119, 101, 98, 115, 111, 99, 107, 101, 116, 45, 107, 101, 121>>  \* "sec-websocket-key"
S_13 == <<49, 51>>  \* "13"

----------------------------------------------------------------------------
(* WebSocketServer::handshake and WebSocketServer::upgrade, on the bytes s *)
(* a raw connection has delivered so far                                   *)

\* the first index after pos at which s holds the byte b, 0 when none does
RECURSIVE FindByte(_, _, _)
FindByte(s, pos, b) ==
    IF pos >= Len(s) THEN 0
    ELSE IF s[pos + 1] = b THEN pos + 1
    ELSE FindByte(s, pos + 1, b)

\* rxbuf.read_until(delim, &mut buf) from offset pos: the bytes up to and
\* including delim, or up to the end of a stream the peer has closed
read_until(s, eof, pos, delim) ==
    LET k == FindByte(s, pos, delim)
    IN  IF k > 0 THEN [st |-> "ok", buf |-> SubSeq(s, pos + 1, k), next |-> k]
        ELSE IF eof THEN [st |-> "ok", buf |-> SubSeq(s, pos + 1, Len(s)), next |-> Len(s)]
        ELSE [st |-> "pending", buf |-> <<>>, next |-> pos]

\* count_up_till(vec, thing): the index (from 0) of the first thing in vec;
\* vec[0] of an empty vec is an index out of bounds
count_up_till(vec, thing) ==
    IF vec = <<>> THEN [panic |-> TRUE, some |-> FALSE, idx |-> 0]
    ELSE LET k == FindByte(vec, 0, thing)
         IN  IF k = 0 THEN [panic |-> FALSE, some |-> FALSE, idx |-> 0]
             ELSE [panic |-> FALSE, some |-> TRUE, idx |-> k - 1]

\* HashMap::new and HashMap::insert
NoHeaders == [n \in {} |-> <<>>]
insert(headers, k, v) ==
    [n \in (DOMAIN headers) \cup {k} |-> IF n = k THEN v ELSE headers[n]]

\* the header loop of handshake: a line without a space ends it
RECURSIVE read_headers(_, _, _, _)
read_headers(s, eof, pos, headers) ==
    LET r == read_until(s, eof, pos, 10) IN
    IF r.st = "pending" THEN [st |-> "pending", headers |-> headers] ELSE
    LET c == count_up_till(r.buf, 32) IN
    IF c.panic THEN [st |-> "panic", headers |-> headers]
    ELSE IF ~c.some THEN [st |-> "ok", headers |-> headers]
    \* headbuf[0..colon - 1] with colon = 0
    ELSE IF c.idx = 0 THEN [st |-> "panic", headers |-> headers]
    ELSE LET rawname == SubSeq(r.buf, 1, c.idx - 1)
             rawval  == SubSeq(r.buf, c.idx + 1, Len(r.buf))
         IN  IF ~from_utf8_ok(rawname) \/ ~from_utf8_ok(rawval)
             THEN [st |-> "panic", headers |-> headers]
             ELSE read_headers(s, eof, r.next,
                               insert(headers, to_lowercase(trim(rawname)), trim(rawval)))

\* the responses: status code and reason phrase of the status line, and
\* for the 101 the key the Sec-WebSocket-Accept value is computed from
Response(code, reason) == [code |-> code, reason |-> reason, key |-> <<>>]
R400_version    == Response(400, "Bad Request")
R200_manifest   == Response(200, "Everything Is Ight, Cuh")
R418            == Response(418, "I'm A Teapot")
R400_ws_version == Response(400, "Get It Right, Goddamnit")
R400_key        == Response(400, "I Hate Meddling Kids Like You")
R101(key)       == [code |-> 101, reason |-> "Upgrading", key |-> key]

\* what a handshake task has come to: st is "pending" (waiting for bytes),
\* "done" (it returned stream, the Option<WebSocketClientStream>) or
\* "panic"; resp is what it has written with try_write
NoStream == [some |-> FALSE, path |-> <<>>, closed |-> FALSE]
SomeStream(uri) == [some |-> TRUE, path |-> uri, closed |-> FALSE]
HsPending == [st |-> "pending", resp |-> <<>>, stream |-> NoStream]
HsPanic   == [st |-> "panic", resp |-> <<>>, stream |-> NoStream]
HsRefuse(r) == [st |-> "done", resp |-> << r >>, stream |-> NoStream]
HsYield(r, uri) == [st |-> "done", resp |-> << r >>, stream |-> SomeStream(uri)]

\* the first test of upgrade
not_upgrade(headers) ==
    \/ ~(S_connection \in DOMAIN headers)
    \/ ~(S_upgrade \in DOMAIN headers)
    \/ ~contains(to_lowercase(headers[S_connection]), S_upgrade)
    \/ to_lowercase(headers[S_upgrade]) # S_websocket

\* (mutant) a missing version header passes
bad_ws_version_lax(headers) ==
    S_sec_websocket_version \in DOMAIN headers /\ headers[S_sec_websocket_version] # S_13

\* match headers.get("sec-websocket-version") { Some(v) => v != "13", None => true }
bad_ws_version(headers) ==
    IF S_sec_websocket_version \in DOMAIN headers
    THEN headers[S_sec_websocket_version] # S_13
    ELSE TRUE

\* !headers.contains_key("sec-websocket-key")
no_key(headers) == ~(S_sec_websocket_key \in DOMAIN headers)

\* WebSocketServer::upgrade
upgrade(headers, uri) ==
    IF not_upgrade(headers) THEN HsRefuse(R418)
    ELSE IF bad_ws_version(headers) THEN HsRefuse(R400_ws_version)
    ELSE IF no_key(headers) THEN HsRefuse(R400_key)
    ELSE HsYield(R101(headers[S_sec_websocket_key]), uri)

\* WebSocketServer::handshake
handshake(s, eof) ==
    LET m == read_until(s, eof, 0, 32) IN
    IF m.st = "pending" THEN HsPending ELSE
    LET u == read_until(s, eof, m.next, 32) IN
    IF u.st = "pending" THEN HsPending ELSE
    LET v == read_until(s, eof, u.next, 10) IN
    IF v.st = "pending" THEN HsPending ELSE
    IF ~from_utf8_ok(m.buf) \/ ~from_utf8_ok(u.buf) \/ ~from_utf8_ok(v.buf)
    THEN HsPanic ELSE
    LET uri     == trim(u.buf)
        version == trim(v.buf)
    IN
    IF version # S_HTTP11 THEN HsRefuse(R400_version) ELSE
    LET h == read_headers(s, eof, v.next, NoHeaders) IN
    IF h.st = "pending" THEN HsPending
    ELSE IF h.st = "panic" THEN HsPanic
    ELSE IF uri = S_manifest THEN HsRefuse(R200_manifest)
    ELSE upgrade(h.headers, uri)

----------------------------------------------------------------------------
(* The peers of the listener: the HTTP requests clients send.  A request   *)
(* description d says what the client put in it (and whether each part is  *)
(* what the server asks for); RequestBytes(d) is what goes on the wire.    *)

\* str::to_uppercase, for clients that shout their header names
to_uppercase(s) ==
    [i \in 1..Len(s) |-> IF s[i] >= 97 /\ s[i] <= 122 THEN s[i] - 32 ELSE s[i]]

Absent == [present |-> FALSE, ok |-> FALSE, value |-> <<>>]
Given(value, ok) == [present |-> TRUE, ok |-> ok, value |-> value]

VersionOpts ==
    { Given(<<72, 84, 84, 80, 47, 49, 46, 49>>, TRUE), Given(<<72, 84, 84, 80, 47, 49, 46, 48>>, FALSE), Given(<<104, 116, 116, 112, 47, 49, 46, 49>>, FALSE) }
UriOpts ==
    { Given(<<47, 109, 97, 110, 105, 102, 101, 115, 116>>, TRUE), Given(<<47, 103, 97, 109, 101>>, FALSE), Given(<<47, 77, 97, 110, 105, 102, 101, 115, 116>>, FALSE) }
ConnectionOpts ==
    { Absent, Given(<<85, 112, 103, 114, 97, 100, 101>>, TRUE), Given(<<107, 101, 101, 112, 45, 97, 108, 105, 118, 101, 44, 32, 85, 80, 71, 82, 65, 68, 69>>, TRUE),
      Given(<<99, 108, 111, 115, 101>>, FALSE) }
UpgradeOpts ==
    { Absent, Given(<<119, 101, 98, 115, 111, 99, 107, 101, 116>>, TRUE), Given(<<87, 101, 98, 83, 111, 99, 107, 101, 116>>, TRUE), Given(<<104, 50, 99>>, FALSE) }
WsVersionOpts ==
    { Absent, Given(<<49, 51>>, TRUE), Given(<<49, 50>>, FALSE) }
KeyOpts ==
    { Absent, Given(<<100, 71, 104, 108, 73, 72, 78, 104, 98, 88, 66, 115, 90, 83, 66, 117, 98, 50, 53, 106, 90, 81, 61, 61>>, TRUE) }

N_Connection == <<67, 111, 110, 110, 101, 99, 116, 105, 111, 110>>
N_Upgrade == <<85, 112, 103, 114, 97, 100, 101>>
N_WsVersion == <<83, 101, 99, 45, 87, 101, 98, 83, 111, 99, 107, 101, 116, 45, 86, 101, 114, 115, 105, 111, 110>>
N_Key == <<83, 101, 99, 45, 87, 101, 98, 83, 111, 99, 107, 101, 116, 45, 75, 101, 121>>
S_GET == <<71, 69, 84>>

NoReq == [version |-> Absent, uri |-> Absent, connection |-> Absent, upgrade |-> Absent,
          ws_version |-> Absent, key |-> Absent, upper |-> FALSE]

HeaderLine(name, opt, upper) ==
    IF opt.present
    THEN (IF upper THEN to_uppercase(name) ELSE name) \o <<58, 32>> \o opt.value \o <<13, 10>>
    ELSE <<>>

RequestLine(d) == S_GET \o <<32>> \o d.uri.value \o <<32>> \o d.version.value \o <<13, 10>>

RequestBytes(d) ==
    RequestLine(d)
    \o HeaderLine(N_Connection, d.connection, d.upper)
    \o HeaderLine(N_Upgrade, d.upgrade, d.upper)
    \o HeaderLine(N_WsVersion, d.ws_version, d.upper)
    \o HeaderLine(N_Key, d.key, d.upper)
    \o <<13, 10>>

\* a connection on which the request d is being sent
Sending(d, got, eof) ==
    [st |-> "accepted", d |-> d, req |-> RequestBytes(d), got |-> got, eof |-> eof,
     hs |-> handshake(SubSeq(RequestBytes(d), 1, got), eof)]

\* the bytes of connection c that have reached the server
Arrived(c) == SubSeq(conn[c].req, 1, conn[c].got)

\* the rest of the request arrives
Deliver ==
    /\ \E c \in ConnIds :
          /\ conn[c].st # "none" /\ ~conn[c].eof
          /\ conn[c].got < Len(conn[c].req)
          /\ conn' = [conn EXCEPT ![c].got = Len(conn[c].req),
                                   ![c].hs = handshake(conn[c].req, conn[c].eof)]
    /\ UNCHANGED <<task, futures, apc, returned, waits, acceptErrs, acceptCalls>>
    /\ UNCHANGED connVars
    /\ UNCHANGED codecVars

\* the client closes its side
ConnClose ==
    /\ \E c \in ConnIds :
          /\ conn[c].st # "none" /\ ~conn[c].eof
          /\ conn' = [conn EXCEPT ![c].eof = TRUE,
                                   ![c].hs = handshake(Arrived(c), TRUE)]
    /\ UNCHANGED <<task, futures, apc, returned, waits, acceptErrs, acceptCalls>>
    /\ UNCHANGED connVars
    /\ UNCHANGED codecVars

\* (mutant) a task runs only when every task spawned before it has ended
CanRun_inline(c) == \A o \in ConnIds : o < c => task[o].st # "pending"

\* self.futures.spawn(..): a task of its own, run by the runtime whatever
\* the other tasks and the accept loop are doing
CanRun(c) == TRUE

\* a handshake task runs as far as the bytes it has let it, and ends
HandshakeRun ==
    /\ \E c \in ConnIds :
          /\ task[c].st = "pending"
          /\ CanRun(c)
          /\ LET h == conn[c].hs IN
             /\ h.st # "pending"
             /\ task' = [task EXCEPT ![c] = h]
    /\ UNCHANGED <<conn, futures, apc, returned, waits, acceptErrs, acceptCalls>>
    /\ UNCHANGED connVars
    /\ UNCHANGED codecVars

----------------------------------------------------------------------------
(* The handshake on its own: one connection, every request, stopped at     *)
(* every stage of its arrival                                              *)

HsRequests ==
    { [version |-> v, uri |-> u, connection |-> c, upgrade |-> g, ws_version |-> w,
       key |-> k, upper |-> up] :
         v \in VersionOpts, u \in UriOpts, c \in ConnectionOpts, g \in UpgradeOpts,
         w \in WsVersionOpts, k \in KeyOpts, up \in BOOLEAN }

\* nothing yet, the request line, all but the closing blank line, all
HsCuts(d) ==
    { 0, Len(RequestLine(d)), Len(RequestBytes(d)) - 2, Len(RequestBytes(d)) }

HsInit ==
    /\ \E d \in HsRequests, e \in BOOLEAN :
          \E k \in HsCuts(d) :
             conn = [c \in ConnIds |-> IF c = 1 THEN Sending(d, k, e) ELSE NoConn]
    /\ task = [c \in ConnIds |-> IF c = 1 THEN HsPending ELSE NoTask]
    /\ futures = {1}
    /\ apc = "idle"
    /\ returned = <<>>
    /\ waits = NoWait
    /\ acceptErrs = 0
    /\ acceptCalls = 0
    /\ CodecIdle
    /\ rx = <<>>
    /\ rxEof = FALSE
    /\ sent = <<>>
    /\ wire = <<>>
    /\ taken = 0
    /\ callFrom = 0
    /\ closed = FALSE
    /\ txShut = FALSE
    /\ pc = "idle"
    /\ final_data = <<>>
    /\ drained = 0
    /\ trace = <<>>
    /\ result = Running
    /\ calls = <<>>

HsNext == HandshakeRun \/ Deliver \/ ConnClose

HandshakeSpec == HsInit /\ [][HsNext]_vars

----------------------------------------------------------------------------
(* WebSocketServer::accept: the listener, the pool of handshake tasks and   *)
(* the loop that races a new raw connection against a completed handshake  *)

GoodRequest ==
    [version |-> Given(S_HTTP11, TRUE), uri |-> Given(<<47, 103>>, FALSE),
     connection |-> Given(N_Connection, FALSE), upgrade |-> Given(S_websocket, TRUE),
     ws_version |-> Given(S_13, TRUE), key |-> Given(<<97, 98, 99>>, TRUE), upper |-> FALSE]

\* what the clients of AcceptSpec ask for: an upgrade, the manifest (with
\* the headers of an upgrade), an upgrade over HTTP/1.0, and an upgrade
\* whose URI is not UTF-8 (String::from_utf8(uri).unwrap() panics on it)
AcceptRequests ==
    { [GoodRequest EXCEPT !.connection = Given(N_Upgrade, TRUE)],
      [GoodRequest EXCEPT !.connection = Given(N_Upgrade, TRUE),
                          !.uri = Given(S_manifest, TRUE)],
      [GoodRequest EXCEPT !.connection = Given(N_Upgrade, TRUE),
                          !.version = Given(<<72, 84, 84, 80, 47, 49, 46, 48>>, FALSE)],
      [GoodRequest EXCEPT !.connection = Given(N_Upgrade, TRUE),
                          !.uri = Given(<<47, 255>>, FALSE)] }

\* a client connects: its connection waits in the listener's queue, with
\* none or all of its request on the way
Connect ==
    /\ \E c \in ConnIds :
          /\ conn[c].st = "none"
          /\ \A o \in ConnIds : o < c => conn[o].st # "none"
          /\ \E d \in AcceptRequests :
                \E k \in {0, Len(RequestBytes(d))} :
                   conn' = [conn EXCEPT ![c] = [Sending(d, k, FALSE) EXCEPT !.st = "queued"]]
    /\ UNCHANGED <<task, futures, apc, returned, waits, acceptErrs, acceptCalls>>
    /\ UNCHANGED connVars
    /\ UNCHANGED codecVars

\* accept() is called
AcceptCall ==
    /\ apc = "idle"
    /\ acceptCalls < MaxAccepts
    /\ apc' = "accepting"
    /\ acceptCalls' = acceptCalls + 1
    /\ UNCHANGED <<conn, task, futures, returned, waits, acceptErrs>>
    /\ UNCHANGED connVars
    /\ UNCHANGED codecVars

\* (mutant) the pool is waited on whatever its size
WaitsOnPool_always(len) == TRUE

\* if self.futures.len() > 0: the turn selects over the listener and the
\* pool, otherwise it awaits the listener alone
WaitsOnPool(len) == len > 0

\* what a turn of the loop waits on
Turn == [listener |-> TRUE, join |-> WaitsOnPool(Cardinality(futures)),
         len |-> Cardinality(futures)]

\* listener.accept() gives Ok((socket, _)): the handshake task is spawned
AcceptNew ==
    /\ apc = "accepting"
    /\ \E c \in ConnIds :
          /\ conn[c].st = "queued"
          /\ \A o \in ConnIds : o < c => conn[o].st # "queued"
          /\ conn' = [conn EXCEPT ![c].st = "accepted"]
          /\ task' = [task EXCEPT ![c] = HsPending]
          /\ futures' = futures \cup {c}
    /\ waits' = Turn
    /\ UNCHANGED <<apc, returned, acceptErrs, acceptCalls>>
    /\ UNCHANGED connVars
    /\ UNCHANGED codecVars

\* listener.accept() gives Err(_): "Socket accept failed. This is not critical."
AcceptFail ==
    /\ apc = "accepting"
    /\ acceptErrs < MaxAcceptErrs
    /\ acceptErrs' = acceptErrs + 1
    /\ waits' = Turn
    /\ UNCHANGED <<conn, task, futures, apc, returned, acceptCalls>>
    /\ UNCHANGED connVars
    /\ UNCHANGED codecVars

\* (mutant) whatever a finished task returned is handed to the caller
Surfaces_any(t) == t.st = "done"

\* Some (Ok(Some(websocket))) => return websocket
Surfaces(t) == t.st = "done" /\ t.stream.some

\* what accept() returns for the task of connection c
Returned(c) == [id |-> c, path |-> task[c].stream.path, closed |-> task[c].stream.closed,
                some |-> task[c].stream.some]

\* (mutant) a joined task stays in the pool
join_next_rest_kept(c) == futures

\* join_next() takes the finished task out of the JoinSet
join_next_rest(c) == futures \ {c}

\* self.futures.join_next() gives a finished task (or None on an empty
\* pool): its stream is returned, anything else is dropped
JoinNext ==
    /\ apc = "accepting"
    /\ WaitsOnPool(Cardinality(futures))
    /\ waits' = Turn
    /\ IF futures = {}
       THEN UNCHANGED <<futures, returned, apc>>
       ELSE \E c \in futures :
               /\ task[c].st \in {"done", "panic"}
               /\ futures' = join_next_rest(c)
               /\ IF Surfaces(task[c])
                  THEN /\ returned' = Append(returned, Returned(c))
                       /\ apc' = "idle"
                  ELSE UNCHANGED <<returned, apc>>
    /\ UNCHANGED <<conn, task, acceptErrs, acceptCalls>>
    /\ UNCHANGED connVars
    /\ UNCHANGED codecVars

AcceptNext ==
    \/ Connect
    \/ Deliver
    \/ HandshakeRun
    \/ AcceptCall
    \/ AcceptNew
    \/ AcceptFail
    \/ JoinNext

AcceptSpec == Init /\ [][AcceptNext]_vars

\* a task that can run does run, and the loop takes a branch of its select
\* that stays ready; nothing makes a client send or close
FairAcceptSpec ==
    AcceptSpec /\ WF_vars(HandshakeRun) /\ WF_vars(AcceptNew) /\ WF_vars(JoinNext)

----------------------------------------------------------------------------
(* The codec on its own: the derive macro applied to an enum, then encode   *)
(* and decode as generated, on every message of the enum and on payloads   *)
(* that are no encoding of any                                             *)

\* enum Unit_n { V0, V1, .. } with n variants and no fields
UnitEnum(n) == [k \in 1..n |-> <<>>]

\* enum Wide { Put(u16, String, u8), Pair(String, String, bool) }
Wide == << <<"u16", "String", "u8">>, <<"String", "String", "bool">> >>

Enums == {Schema, Wide} \cup { UnitEnum(n) : n \in {1, 2, 255, 256} }

\* the values a field takes: the ends of each integer range, the empty
\* string, one ASCII letter, and "\u{e9}b" (a two-byte character first)
Values(ty) ==
    CASE ty = "u8"     -> {0, 255}
      [] ty = "bool"   -> {TRUE, FALSE}
      [] ty = "u16"    -> {0, 258, 65535}
      [] ty = "String" -> {<<>>, <<97>>, <<195, 169, 98>>}

RECURSIVE ArgsOf(_)
ArgsOf(tys) ==
    IF tys = <<>> THEN {<<>>}
    ELSE { <<v>> \o rest : v \in Values(Head(tys)), rest \in ArgsOf(Tail(tys)) }

\* the lengths of the long texts: the last the prefix can hold, and the
\* two after it
LongTexts == {65535, 65536, 65537}

\* payloads for Demo that no encode produced: a variant that does not
\* exist, a bool that is neither 0 nor 1, text that is not UTF-8, text
\* shorter than announced
RawPayloads ==
    { <<3>>, <<255>>, <<200, 1, 2>>, <<1, 7, 2>>, <<1, 7, 2, 99>>,
      <<2, 0, 1, 255>>, <<2, 0, 2, 195, 40>>, <<2, 0, 2, 195, 169, 7>>,
      <<2, 0, 3, 97, 98>>, <<2, 255, 255, 97>> }

Whole(m) == [msg |-> m, text |-> -1, raw |-> <<>>, keep |-> -1, junk |-> <<>>]

\* a message as it is, with two bytes after it, or cut short
InputsOf(e, m) ==
    { Whole(m) }
    \cup (IF Len(e) > 3 THEN {}
          ELSE { [Whole(m) EXCEPT !.junk = <<9, 0>>] }
               \cup { [Whole(m) EXCEPT !.keep = k] : k \in 0..(Len(encode(e, m)) - 1) })

CodecInit ==
    /\ \E e \in Enums :
          /\ frame_enum = e
          \* a message of any variant (of a 256-variant enum, of the last);
          \* Chat with a long text, held as Chat("") and the length of the
          \* text (see Message); a payload no encode produced
          /\ \/ \E k \in (IF Len(e) > 255 THEN {Len(e)} ELSE 1..Len(e)) :
                   \E a \in ArgsOf(e[k]) :
                      \E i \in InputsOf(e, [op |-> k - 1, args |-> a]) : input = i
             \/ e = Schema /\ \E n \in LongTexts :
                   input = [Whole([op |-> 2, args |-> << <<>> >>]) EXCEPT !.text = n]
             \/ e = Schema /\ \E p \in RawPayloads : input = [NoInput EXCEPT !.raw = p]
    /\ codec = NotDerived
    /\ output = NoOutput
    /\ SrvInit
    /\ rx = <<>>
    /\ rxEof = FALSE
    /\ sent = <<>>
    /\ wire = <<>>
    /\ taken = 0
    /\ callFrom = 0
    /\ closed = FALSE
    /\ txShut = FALSE
    /\ pc = "idle"
    /\ final_data = <<>>
    /\ drained = 0
    /\ trace = <<>>
    /\ result = Running
    /\ calls = <<>>

\* #[derive(ProtocolFrame)] is expanded
Derive ==
    /\ codec.st = "none"
    /\ codec' = protocol_frame_derive(frame_enum)
    /\ UNCHANGED <<frame_enum, input, output>>
    /\ UNCHANGED connVars
    /\ UNCHANGED srvVars

IsMessage(i) == i.msg.op >= 0

\* the message of an input: a long text is text times the letter a
Message(i) ==
    IF i.text >= 0 THEN [op |-> i.msg.op, args |-> << Fill(i.text, 97) >>] ELSE i.msg

\* a byte string is held with its last run of equal bytes counted instead
\* of spelled out
Pack(s) ==
    LET n   == Len(s)
        brk == { i \in 1..n : s[i] # s[n] }
        p   == IF brk = {} THEN 0 ELSE CHOOSE x \in brk : \A y \in brk : y <= x
    IN  IF n = 0 THEN [pre |-> <<>>, run |-> 0, byte |-> 0]
        ELSE [pre |-> SubSeq(s, 1, p), run |-> n - p, byte |-> s[n]]

Unpack(p) == p.pre \o Fill(p.run, p.byte)

\* what reaches decode: the encoding (cut short, or with junk after it), or
\* the raw payload
Payload(i, enc) ==
    IF IsMessage(i)
    THEN (IF i.keep >= 0 THEN SubSeq(enc, 1, i.keep) ELSE enc) \o i.junk
    ELSE i.raw

\* ProtocolFrame::encode on the message
Encode ==
    /\ codec.st = "ok"
    /\ IsMessage(input)
    /\ output.stage = "none"
    /\ output' = [stage |-> "encoded",
                  enc |-> Pack(encode(frame_enum, Message(input))),
                  payload |-> Pack(Payload(input, encode(frame_enum, Message(input)))),
                  dec |-> [ok |-> FALSE]]
    /\ UNCHANGED <<frame_enum, codec, input>>
    /\ UNCHANGED connVars
    /\ UNCHANGED srvVars

\* ProtocolFrame::decode on the payload
Decode ==
    /\ codec.st = "ok"
    /\ output.stage = (IF IsMessage(input) THEN "encoded" ELSE "none")
    /\ output' = [stage |-> "decoded", enc |-> output.enc,
                  payload |-> Pack(Payload(input, Unpack(output.enc))),
                  dec |-> decode(frame_enum, Payload(input, Unpack(output.enc)))]
    /\ UNCHANGED <<frame_enum, codec, input>>
    /\ UNCHANGED connVars
    /\ UNCHANGED srvVars

CodecNext == Derive \/ Encode \/ Decode

CodecSpec == CodecInit /\ [][CodecNext]_vars

----------------------------------------------------------------------------
(* What the claims speak of *)

\* the frames the peer has sent, in order
SentFrames == Flatten(sent)

\* every frame the peer has sent so far is one the server must accept, so
\* the k-th successful frame read has consumed exactly the k-th frame sent
AllGood == \A i \in 1..Len(SentFrames) : GoodFrame(SentFrames[i])

\* the frames the current (or last) call has consumed, when AllGood
CallFrames == SubSeq(SentFrames, callFrom + 1, taken)

LastCall == IF calls = <<>> THEN "" ELSE calls[Len(calls)]

\* the plain payloads of the data frames among ds, concatenated
RECURSIVE DataBytes(_)
DataBytes(ds) ==
    IF ds = <<>> THEN <<>>
    ELSE (IF IsData(Head(ds)) THEN Head(ds).payload ELSE <<>>) \o DataBytes(Tail(ds))

\* the payloads the frame reads recorded in tr returned, concatenated
RECURSIVE TraceData(_)
TraceData(tr) ==
    IF tr = <<>> THEN <<>>
    ELSE (IF Head(tr).e = "read_in" THEN Head(tr).data ELSE <<>>) \o TraceData(Tail(tr))

LastEv == trace[Len(trace)]

\* C1: a read() that reaches the codec hands it the plain payloads of the
\* data frames it consumed, concatenated in arrival order, whatever the
\* fragmentation and whatever pings and pongs came in between; what it
\* returns is the decoding of those bytes, as for one unfragmented frame
C1_Reassembly ==
    (pc = "idle" /\ LastCall = "read" /\ AllGood /\ trace # <<>> /\ LastEv.e = "decode")
    => LET P == DataBytes(CallFrames) IN
       /\ LastEv.data = P
       /\ result.op = "read"
       /\ result.some = decode(Schema, P).ok
       /\ result.some => result.msg = decode(Schema, P).msg

\* a read() returned Move(7, true) from two fragments with a ping and a
\* pong between them
C1_Witness ==
    /\ pc = "idle" /\ LastCall = "read" /\ AllGood
    /\ result = [op |-> "read", some |-> TRUE, msg |-> [op |-> 1, args |-> <<7, TRUE>>]]
    /\ Len(CallFrames) = 4
    /\ ~CallFrames[1].fin /\ IsData(CallFrames[1])
    /\ CallFrames[2].opcode = 9 /\ CallFrames[3].opcode = 10
    /\ CallFrames[4].fin /\ CallFrames[4].opcode = 0

\* C3: read() returns a decoded message or None; a frame read that fails
\* gives None, also after fragments were accumulated; a message returned is
\* the decoding of this call's own frames only, and the buffer of a call
\* holds nothing of an earlier call
C3_ReadOutcome ==
    /\ pc = "read" => final_data = TraceData(trace)
    /\ (pc = "idle" /\ LastCall = "read") =>
          /\ trace # <<>>
          /\ result.op = "read"
          /\ result.some \in BOOLEAN
          /\ IF LastEv.e = "read_in"
             THEN LastEv.st = "err" /\ ~result.some
             ELSE /\ LastEv.e = "decode"
                  /\ LastEv.data = TraceData(trace)
                  /\ result.some = decode(Schema, LastEv.data).ok
                  /\ result.some => result.msg = decode(Schema, LastEv.data).msg

\* a second read() returned a message after the first read() had taken a
\* fin=0 fragment and then failed
C3_Witness ==
    /\ pc = "idle" /\ calls = <<"read", "read">>
    /\ callFrom = 1
    /\ IsData(SentFrames[1]) /\ ~SentFrames[1].fin
    /\ result.some
    /\ result.msg = [op |-> 0, args |-> <<>>]

\* the one frame FrameSpec puts on the wire, and the length of its header
\* up to and including the masking key
TheFrame == sent[1][1]
HeaderLen(d) == 2 + (IF d.form = 16 THEN 2 ELSE IF d.form = 64 THEN 8 ELSE 0) + Len(d.key)

\* C9: once the two header bytes of a frame with the mask bit unset are
\* there, the frame read fails, for every opcode, fin, length form, declared
\* length and payload: it does not wait for more bytes, and it has taken
\* exactly the two header bytes off the stream
C9_UnmaskedRejected ==
    (~TheFrame.masked /\ Len(wire) >= 2)
    => /\ trace = <<>> => ENABLED FrameRead
       /\ trace # <<>> =>
             /\ trace[1].st = "err"
             /\ trace[1].why = "unmasked"
             /\ trace[1].used = 2
             /\ trace[1].alloc = -1
             /\ rx = SubSeq(wire, 3, Len(wire))

\* an unmasked header announcing a 16-bit length was rejected when nothing
\* but its two bytes had arrived and the stream was still open
C9_Witness ==
    /\ ~TheFrame.masked /\ TheFrame.form = 16 /\ TheFrame.opcode = 2
    /\ Len(wire) = 2 /\ ~rxEof
    /\ trace # <<>> /\ trace[1].why = "unmasked"

\* C10: a masked frame whose declared length is over the cap is rejected as
\* soon as its header and masking key are there: no payload byte is taken
\* off the stream, no payload buffer is allocated and the read does not wait
\* for the payload; a complete frame declaring exactly the cap is accepted
\* with its payload
C10_OversizeRejected ==
    LET d == TheFrame
        hdr == HeaderLen(d)
    IN  (d.masked /\ Len(wire) >= hdr)
        => /\ (d.len > PAYLOAD_SIZE_CAP /\ trace = <<>>) => ENABLED FrameRead
           /\ (d.len > PAYLOAD_SIZE_CAP /\ trace # <<>>) =>
                 /\ trace[1].st = "err"
                 /\ trace[1].why = "oversize"
                 /\ trace[1].alloc = -1
                 /\ trace[1].used = hdr
                 /\ rx = SubSeq(wire, hdr + 1, Len(wire))
           /\ (d.len = PAYLOAD_SIZE_CAP /\ Len(wire) = hdr + d.len /\ trace # <<>>
                 /\ d.opcode \in {0, 2, 8, 9, 10}) =>
                 /\ trace[1].st = "ok"
                 /\ trace[1].alloc = PAYLOAD_SIZE_CAP
                 /\ rx = <<>>
                 /\ IsData(d) => trace[1].data = d.payload

\* a frame in the 64-bit form declaring one byte more than the cap was
\* rejected with all of its payload still on the stream
C10_Witness ==
    /\ TheFrame.masked /\ TheFrame.form = 64 /\ TheFrame.len = PAYLOAD_SIZE_CAP + 1
    /\ Len(wire) = HeaderLen(TheFrame) + TheFrame.len
    /\ trace # <<>> /\ trace[1].why = "oversize"
    /\ Len(rx) = TheFrame.len

\* C2: a read() that receives a close frame sets closed, replies with one
\* close frame and ends there: it takes no data frame after the close
\* frame and returns no message
C2_CloseEndsRead ==
    LastCall = "read" =>
       \A i \in 1..Len(trace) :
          (trace[i].e = "read_in" /\ trace[i].kind = "Close") =>
             /\ closed
             /\ i < Len(trace)
             /\ trace[i + 1].e = "write" /\ trace[i + 1].buf = CloseFrameBytes
             /\ \A j \in (i + 2)..Len(trace) :
                   ~(trace[j].e = "read_in" /\ trace[j].kind \in {"DataFin", "DataUnfin"})
             /\ pc = "idle" => ~result.some

\* C4: a shutdown() called after an earlier shutdown() has returned does
\* nothing: no write, no shutdown of the write half, no frame read
C4_SecondShutdownNoop ==
    (LastCall = "shutdown" /\ \E i \in 1..(Len(calls) - 1) : calls[i] = "shutdown")
    => trace = <<>> /\ pc = "idle"

\* C5 as claimed: a shutdown() in progress always returns
C5_ShutdownReturns == (pc = "shutdown") ~> (pc = "idle")

\* C5 as amended: shutdown() reads at most DRAIN_MAX frames, and returns
\* once the peer has closed its side of the stream
C5_ShutdownReturnsAfterEof ==
    /\ [](drained <= DRAIN_MAX)
    /\ (pc = "shutdown" /\ rxEof) ~> (pc = "idle")

\* a shutdown() that drained frames returned on the EOF of a peer that
\* never sent a close frame
C5_Witness ==
    /\ pc = "idle" /\ LastCall = "shutdown" /\ rxEof
    /\ drained > 1
    /\ LastEv.e = "read_in" /\ LastEv.why = "eof"
    /\ \A i \in 1..Len(SentFrames) : SentFrames[i].opcode # 8

\* a conforming client reading one server frame off the bytes b (RFC 6455
\* section 5.2, unmasked): the frame and what is left after it
ClientParse(b) ==
    IF Len(b) < 2 THEN [ok |-> FALSE] ELSE
    LET len7 == b[2] % 128
        extn == IF len7 = 126 THEN 2 ELSE IF len7 = 127 THEN 8 ELSE 0
    IN  IF Len(b) < 2 + extn THEN [ok |-> FALSE] ELSE
        LET n == IF len7 = 126 THEN u16_from_be_bytes(SubSeq(b, 3, 4))
                 ELSE IF len7 = 127 THEN u64_from_be_bytes(SubSeq(b, 3, 10))
                 ELSE len7
        IN  IF Len(b) < 2 + extn + n THEN [ok |-> FALSE]
            ELSE [ok |-> TRUE, fin |-> b[1] >= 128, opcode |-> b[1] % 16,
                  masked |-> b[2] >= 128,
                  payload |-> SubSeq(b, 3 + extn, 2 + extn + n),
                  rest |-> SubSeq(b, 3 + extn + n, Len(b))]

\* the frame a client must read off the wire after a send() of data
OneBinaryFrame(data) ==
    [ok |-> TRUE, fin |-> TRUE, opcode |-> 2, masked |-> FALSE,
     payload |-> data, rest |-> <<>>]

\* both writes of the send() that ended last wrote all of their bytes
WroteAll ==
    /\ Len(trace) = 3
    /\ trace[2].res = "ok" /\ trace[2].n = Len(trace[2].buf)
    /\ trace[3].res = "ok" /\ trace[3].n = Len(trace[3].buf)

\* the length of the encoded message of the send() that ended last
SendDone == LastCall = "send" /\ pc \in {"idle", "panicked"}
SentLen == Len(trace[1].data)

\* C6: for 126 <= L <= 65535 send() writes the 4-byte header 0x82, 126, L
\* as a big-endian u16, then L payload bytes; for L <= 125 the 2-byte
\* header 0x82, L
C6_Header16 ==
    SendDone =>
       /\ (SentLen >= 126 /\ SentLen <= 65535) =>
             /\ pc = "idle"
             /\ Len(trace) >= 2
             /\ trace[2].e = "write"
             /\ trace[2].buf = <<130, 126>> \o u16_to_be_bytes(SentLen)
             /\ Len(trace) = 3 => Len(trace[3].buf) = SentLen
       /\ SentLen <= 125 =>
             /\ pc = "idle"
             /\ trace[2].buf = <<130, SentLen>>

\* C7: for L > 65535 send() writes the 10-byte header 0x82, 127, L as a
\* big-endian u64, then the L payload bytes and nothing in between, so
\* that a client reads back one binary frame holding the encoded message
C7_Header64 ==
    (SendDone /\ SentLen > 65535) =>
       /\ pc = "idle"
       /\ trace[2].e = "write"
       /\ trace[2].buf = <<130, 127>> \o u64_to_be_bytes(SentLen)
       /\ Len(trace) = 3 => trace[3].buf = trace[1].data
       /\ WroteAll => ClientParse(trace[2].buf \o trace[3].buf) = OneBinaryFrame(trace[1].data)

\* C8: every send() returns having written a header that starts with 0x82
\* and has the mask bit clear, then, in a second write, the encoded message
\* as it is; a failed header write gives an error and no payload write, a
\* failed payload write gives an error; what is written is exactly one
\* unmasked binary frame with fin set
C8_SendOneFrame ==
    SendDone =>
       /\ pc = "idle"
       /\ Len(trace) >= 2
       /\ trace[2].e = "write"
       /\ trace[2].buf[1] = 130
       /\ trace[2].buf[2] < 128
       /\ IF trace[2].res = "err"
          THEN Len(trace) = 2 /\ result.st = "err"
          ELSE /\ Len(trace) = 3
               /\ trace[3].e = "write"
               /\ trace[3].buf = trace[1].data
               /\ result.st = (IF trace[3].res = "err" THEN "err" ELSE "ok")
       /\ WroteAll => ClientParse(trace[2].buf \o trace[3].buf) = OneBinaryFrame(trace[1].data)

\* the request of the one connection of HandshakeSpec, whether all of it
\* has arrived, and its handshake task
TheRequest == conn[1].d
AllArrived == conn[1].got = Len(conn[1].req)
TheTask == task[1]

\* the checks of the handshake, told from what the client put in the request
Check_version(d)    == ~d.version.ok
Check_manifest(d)   == d.uri.ok
Check_upgrade(d)    == ~(d.connection.ok /\ d.upgrade.ok)
Check_ws_version(d) == ~d.ws_version.ok
Check_key(d)        == ~d.key.present
AnyCheck(d) ==
    \/ Check_version(d) \/ Check_manifest(d) \/ Check_upgrade(d)
    \/ Check_ws_version(d) \/ Check_key(d)

\* the response of the first check that triggers, in the order 1 to 5
FirstCheckResponse(d) ==
    IF Check_version(d) THEN R400_version
    ELSE IF Check_manifest(d) THEN R200_manifest
    ELSE IF Check_upgrade(d) THEN R418
    ELSE IF Check_ws_version(d) THEN R400_ws_version
    ELSE IF Check_key(d) THEN R400_key
    ELSE R101(d.key.value)

\* C11: a handshake that has ended has sent exactly one response; when the
\* whole request had arrived it is the response of the first check that
\* triggers, in the order version (400), /manifest (200), Connection and
\* Upgrade (418), Sec-WebSocket-Version (400), Sec-WebSocket-Key (400), and
\* a 101 is sent only when no check triggers; a handshake that has not
\* ended has sent nothing, and one whose request has arrived does end
C11_CheckOrder ==
    /\ conn[1].hs = handshake(Arrived(1), conn[1].eof)
    /\ TheTask.st = "done" =>
          /\ Len(TheTask.resp) = 1
          /\ AllArrived => TheTask.resp[1] = FirstCheckResponse(TheRequest)
          /\ TheTask.resp[1].code = 101 => (AllArrived /\ ~AnyCheck(TheRequest))
          /\ Check_version(TheRequest) /\ conn[1].got >= Len(RequestLine(TheRequest))
                => TheTask.resp[1] = R400_version
    /\ TheTask.st # "done" => TheTask.resp = <<>>
    /\ (TheTask.st = "pending" /\ AllArrived)
          => (conn[1].hs.st # "pending" /\ ENABLED HandshakeRun)

\* an upgrade request with neither Sec-WebSocket-Version nor
\* Sec-WebSocket-Key was answered with the 400 of the version check
C11_Witness ==
    /\ TheTask.st = "done" /\ AllArrived
    /\ ~Check_version(TheRequest) /\ ~Check_manifest(TheRequest)
    /\ ~Check_upgrade(TheRequest)
    /\ ~TheRequest.ws_version.present /\ ~TheRequest.key.present
    /\ TheTask.resp = << R400_ws_version >>

\* C12: a handshake whose request has arrived yields a Connection exactly
\* when the version is HTTP/1.1, the URI is not /manifest and the
\* Connection, Upgrade, Sec-WebSocket-Version and Sec-WebSocket-Key checks
\* pass, whatever the case of the header names and of the Connection and
\* Upgrade values; the Connection has the request URI as its path and is
\* not closed; a request to /manifest yields none
C12_YieldsConnection ==
    (TheTask.st = "done" /\ AllArrived) =>
       /\ TheTask.stream.some <=> ~AnyCheck(TheRequest)
       /\ TheTask.stream.some =>
             /\ TheTask.stream.path = TheRequest.uri.value
             /\ TheTask.stream.closed = FALSE
             /\ TheTask.resp[1].code = 101
       /\ Check_manifest(TheRequest) => ~TheTask.stream.some

\* a request with upper-case header names, "keep-alive, UPGRADE" and
\* "WebSocket" yielded a Connection
C12_Witness ==
    /\ TheTask.st = "done" /\ TheTask.stream.some
    /\ TheRequest.upper
    /\ TheRequest.connection.value # TheRequest.upgrade.value
    /\ to_lowercase(TheRequest.connection.value) # TheRequest.connection.value
    /\ to_lowercase(TheRequest.upgrade.value) # TheRequest.upgrade.value
    /\ Len(TheRequest.connection.value) > 7

\* the handshake of connection c completed successfully: the whole of a
\* request that passes every check arrived and the task returned a stream
Completed(c) ==
    /\ task[c].st = "done" /\ task[c].stream.some
    /\ ~AnyCheck(conn[c].d) /\ from_utf8_ok(conn[c].d.uri.value)
    /\ conn[c].got = Len(conn[c].req)

\* the task of connection c has been joined by the accept loop
Joined(c) == task[c].st \in {"done", "panic"} /\ c \notin futures

\* C13: whatever accept() has returned is the Connection of a handshake
\* that completed successfully; accept() returns only by handing one over;
\* joining a task that ended with no stream (manifest, failed check, panic)
\* and a failed listener.accept() return nothing to the caller, leave the
\* loop running and leave every other task in the pool
C13_OnlyCompleted ==
    /\ [](\A c \in ConnIds : conn[c].hs = handshake(Arrived(c), conn[c].eof))
    /\ [](\A i \in 1..Len(returned) :
            /\ Completed(returned[i].id)
            /\ returned[i].some
            /\ returned[i].path = conn[returned[i].id].d.uri.value
            /\ Joined(returned[i].id))
    /\ [][ /\ (apc = "accepting" /\ apc' = "idle") => Len(returned') = Len(returned) + 1
           /\ returned' # returned => (apc = "accepting" /\ apc' = "idle")
           /\ \A c \in futures \ futures' :
                 ~Completed(c) => /\ apc' = "accepting"
                                  /\ returned' = returned
                                  /\ futures' = futures \ {c}
                                  /\ task' = task
           /\ acceptErrs' # acceptErrs => /\ apc' = "accepting"
                                          /\ returned' = returned
                                          /\ futures' = futures
                                          /\ task' = task
         ]_vars

\* accept() returned the second connection after a failed listener.accept()
\* and after joining the panicked task of the first
C13_Witness ==
    /\ Len(returned) = 1 /\ returned[1].id = 2
    /\ task[1].st = "panic" /\ Joined(1)
    /\ acceptErrs = 1

\* C14: every turn of the accept loop waits on the listener, and waits on
\* the pool of handshake tasks only when the pool is not empty; join_next
\* never runs on an empty pool
C14_NoEmptyPoll ==
    /\ waits.join => waits.len > 0
    /\ waits # NoWait => waits.listener
    /\ (waits # NoWait /\ waits.len = 0) => ~waits.join

\* the loop took a turn on an empty pool after accept() had returned once
\* and both connections had been joined
C14_Witness ==
    /\ Len(returned) = 1
    /\ \A c \in ConnIds : Joined(c)
    /\ acceptCalls = 2 /\ apc = "accepting"
    /\ waits = [listener |-> TRUE, join |-> FALSE, len |-> 0]

\* the whole of a request that passes every check has arrived on connection
\* c, and c has not been handed to a caller yet
ValidWaiting(c) ==
    /\ conn[c].st \in {"queued", "accepted"}
    /\ ~AnyCheck(conn[c].d) /\ from_utf8_ok(conn[c].d.uri.value)
    /\ conn[c].got = Len(conn[c].req)
    /\ ~Joined(c)

\* the handshake of an earlier connection is stalled (nothing of its
\* request has arrived) or has ended without a stream
StalledOrFailed(c) ==
    /\ conn[c].st = "accepted"
    /\ \/ task[c].st = "pending" /\ conn[c].got = 0
       \/ task[c].st = "panic"
       \/ task[c].st = "done" /\ ~task[c].stream.some

IsReturned(c) == \E i \in 1..Len(returned) : returned[i].id = c

\* C15: while accept() is pending, a connection whose valid request has
\* arrived is handed to the caller (or the call returns another completed
\* connection first), also when an earlier connection's handshake is
\* stalled for good or has failed
C15_ConcurrentHandshakes ==
    \A c \in ConnIds :
       (apc = "accepting" /\ ValidWaiting(c))
          ~> (IsReturned(c) \/ (apc = "idle" /\ returned # <<>>))

\* the second connection was returned while the handshake of the first,
\* accepted before it, was still waiting for the first byte of its request
C15_Witness ==
    /\ Len(returned) = 1 /\ returned[1].id = 2
    /\ StalledOrFailed(1) /\ task[1].st = "pending" /\ 1 \in futures
    /\ ~conn[1].eof

\* the frame read a step of read() has just recorded was a ping or a pong
PingPongStep ==
    /\ pc = "read"
    /\ Len(trace') > Len(trace)
    /\ trace'[Len(trace) + 1].e = "read_in"
    /\ trace'[Len(trace) + 1].kind \in {"Ping", "Pong"}

\* C16: the step of read() that takes a ping or a pong writes nothing,
\* leaves closed, the write half and the reassembly buffer as they are and
\* stays in the loop; every write of a read() is the close frame, made
\* right after the frame read that returned the peer's close frame
C16_PingPongSilent ==
    /\ [](LastCall = "read" =>
            \A i \in 1..Len(trace) :
               trace[i].e = "write" =>
                  /\ trace[i].buf = CloseFrameBytes
                  /\ i > 1
                  /\ trace[i - 1].e = "read_in" /\ trace[i - 1].kind = "Close")
    /\ [][PingPongStep =>
            /\ trace' = Append(trace, trace'[Len(trace) + 1])
            /\ closed' = closed
            /\ txShut' = txShut
            /\ final_data' = final_data
            /\ pc' = "read"
            /\ result' = result]_vars

\* a read() holding a first fragment has taken a ping and a pong and is
\* still reading, its buffer as the fragment left it
C16_Witness ==
    /\ pc = "read" /\ ~closed
    /\ Len(trace) = 3
    /\ trace[1].kind = "DataUnfin" /\ trace[2].kind = "Ping" /\ trace[3].kind = "Pong"
    /\ final_data = trace[1].data /\ final_data # <<>>

\* a read() has just returned None on a decode error, with closed unset
DecodeFailed ==
    /\ pc = "idle" /\ LastCall = "read"
    /\ result.op = "read" /\ ~result.some /\ result.why = "decode"

\* C17: the step of read() that ends on a decode error returns None and
\* does nothing else: closed and the write half are as before and nothing
\* is written; a shutdown() called next on a connection not closed sends
\* the close frame, shuts the write half down and goes on to drain
C17_DecodeErrorKeepsOpen ==
    /\ [][(pc = "read" /\ DecodeFailed') =>
            /\ closed' = closed
            /\ txShut' = txShut
            /\ Len(trace') = Len(trace) + 2
            /\ trace'[Len(trace) + 1].e = "read_in"
            /\ trace'[Len(trace) + 2].e = "decode"]_vars
    /\ [][(DecodeFailed /\ ~closed /\ calls' = Append(calls, "shutdown")) =>
            /\ trace' = << EvSendClose, EvShutdownTx >>
            /\ txShut'
            /\ pc' = "shutdown"]_vars

\* a shutdown() has sent the close frame and shut the write half down after
\* a read() that had failed to decode Move without its fields
C17_Witness ==
    /\ calls = <<"read", "shutdown">>
    /\ callFrom = 1
    /\ SentFrames[1] = Frame(TRUE, 0, <<1>>)
    /\ ~decode(Schema, SentFrames[1].payload).ok
    /\ Len(trace) >= 2 /\ trace[1] = EvSendClose /\ trace[2] = EvShutdownTx
    /\ txShut /\ ~closed

Derived == codec.st # "none"
Encoded == output.stage # "none" /\ IsMessage(input)
Decoded == output.stage = "decoded"
DecodeError == ~output.dec.ok

\* decode gave the message m: the same variant, then the same fields
Gave(m) ==
    /\ output.dec.ok
    /\ output.dec.msg.op = m.op
    /\ output.dec.msg.args = m.args

\* the i-th variant has opcode i in the encoder, in the decoder and in the
\* manifest, and the bytes written and read agree with it
OpcodesAgree ==
    /\ Len(codec.arms) = Len(frame_enum)
    /\ Len(codec.manifest) = Len(frame_enum)
    /\ \A k \in 1..Len(frame_enum) :
          /\ codec.arms[k] = [variant |-> k - 1, identi |-> k - 1]
          /\ codec.manifest[k].name = k - 1
          /\ codec.manifest[k].opcode = k - 1
    /\ Encoded => Unpack(output.enc)[1] = input.msg.op
    /\ (Decoded /\ output.dec.ok) => output.dec.msg.op = Unpack(output.payload)[1]

\* C18 as stated: for every enum of 1 to 256 variants the derivation
\* succeeds and the i-th variant has opcode i in encode, decode and the
\* manifest; an enum of exactly 256 variants is accepted
C18_OpcodesUpTo256 ==
    (Derived /\ Len(frame_enum) >= 1 /\ Len(frame_enum) <= 256)
        => (codec.st = "ok" /\ OpcodesAgree)

\* C18 amended: for every enum of 1 to 255 variants the derivation succeeds
\* and the i-th variant has opcode i in encode, decode and the manifest (the
\* last opcode in use is 254); the derivation of an enum of 256 variants
\* panics and generates nothing
C18_OpcodesUpTo255 ==
    Derived =>
        IF Len(frame_enum) >= 1 /\ Len(frame_enum) <= 255
        THEN codec.st = "ok" /\ OpcodesAgree
        ELSE codec.st = "panic" /\ output.stage = "none"

C18_Witness ==
    /\ frame_enum = UnitEnum(255)
    /\ codec.st = "ok"
    /\ codec.manifest[255].opcode = 254
    /\ input.msg.op = 254
    /\ Decoded
    /\ Unpack(output.enc) = <<254>>
    /\ Gave([op |-> 254, args |-> <<>>])

\* C19: decoding the encoding of a message gives the message back, for
\* every enum and every message of it, texts longer than 65535 bytes and
\* variants of several fields included
C19_RoundTrip ==
    (Decoded /\ IsMessage(input) /\ input.keep = -1 /\ input.junk = <<>>)
        => Gave(Message(input))

\* payloads for Demo with a variant that exists and a field that is not
\* there in full or is not UTF-8
Malformed ==
    { <<2, 0, 1, 255>>, <<2, 0, 2, 195, 40>>, <<2, 0, 3, 97, 98>>, <<2, 255, 255, 97>> }

\* C20: decode fails on an empty payload, on a first byte that is the
\* opcode of no variant (255 included) and on a known opcode followed by a
\* field that is cut short or invalid, in each case without a message;
\* bytes after the last field of a message that decodes are ignored
C20_DecodeErrors ==
    Decoded =>
        /\ Unpack(output.payload) = <<>> => DecodeError
        /\ (Unpack(output.payload) # <<>> /\ Unpack(output.payload)[1] >= Len(frame_enum))
              => DecodeError
        /\ (IsMessage(input) /\ input.keep >= 1) => DecodeError
        /\ input.raw \in Malformed => DecodeError
        /\ (IsMessage(input) /\ input.keep = -1 /\ input.junk # <<>>)
              => Gave(Message(input))
        /\ input.raw = <<2, 0, 2, 195, 169, 7>>
              => Gave([op |-> 2, args |-> << <<195, 169>> >>])

C20_Witness ==
    /\ frame_enum = Schema
    /\ input.raw = <<2, 0, 2, 195, 40>>
    /\ Decoded
    /\ Unpack(output.payload) = <<2, 0, 2, 195, 40>>
    /\ DecodeError

\* the step is a call of shutdown()
ShutdownCalled == Len(calls') = Len(calls) + 1 /\ calls'[Len(calls')] = "shutdown"

\* the step is a turn of read() that took a close frame
TookClose ==
    /\ pc = "read"
    /\ Len(trace') = Len(trace) + 2
    /\ trace'[Len(trace) + 1].e = "read_in"
    /\ trace'[Len(trace) + 1].st = "ok"
    /\ trace'[Len(trace) + 1].kind = "Close"

\* C21: with the closed flag set (by a read() that took the peer's close
\* frame) shutdown() does nothing: no write, no shutdown of the write half,
\* no frame read; the flag is set only by read() on a close frame, is never
\* reset, and shutdown() and send() leave it as it is
C21_ClosedShutdownNoop ==
    /\ []((LastCall = "shutdown" /\ closed) => (trace = <<>> /\ pc = "idle"))
    /\ [][ /\ closed => closed'
           /\ closed' # closed => TookClose
           /\ (ShutdownCalled /\ closed) =>
                 /\ trace' = <<>>
                 /\ pc' = "idle"
                 /\ result' = [op |-> "shutdown"]
                 /\ UNCHANGED <<rx, taken, txShut, closed>>
           /\ (pc \in {"shutdown"} \/ LastCall' = "send" \/ ShutdownCalled)
                 => closed' = closed ]_vars

\* a read() took the peer's close frame, ended on the end of the stream,
\* and the shutdown() after it returned at once with the write half open
C21_Witness ==
    /\ calls = <<"read", "shutdown">>
    /\ closed
    /\ pc = "idle"
    /\ result = [op |-> "shutdown"]
    /\ trace = <<>>
    /\ ~txShut

\* the frame read recorded in ev ends the drain loop
StopsDrain(ev) == ev.st = "err" \/ (ev.st = "ok" /\ ev.kind = "Close")

\* C22: a shutdown() with the closed flag unset writes the close frame,
\* then shuts the write half down, then reads frames: at most 10, none
\* after a read that failed or gave a close frame, and any other frame is
\* dropped with no decode and no write; it goes on to read whatever became
\* of the write and of the shutdown of the write half
C22_ShutdownOrder ==
    (LastCall = "shutdown" /\ ~closed) =>
       /\ Len(trace) >= 2
       /\ trace[1].e = "write" /\ trace[1].buf = CloseFrameBytes
       /\ trace[2].e = "shutdown_tx"
       /\ txShut
       /\ \A i \in 3..Len(trace) : trace[i].e = "read_in"
       /\ Len(trace) - 2 = drained
       /\ drained <= DRAIN_MAX
       /\ \A i \in 3..(Len(trace) - 1) : ~StopsDrain(trace[i])
       /\ pc \in {"shutdown", "idle"}
       /\ pc = "idle" <=> (drained >= 1 /\ (StopsDrain(LastEv) \/ drained = DRAIN_MAX))

\* a second shutdown(), its close frame written to a write half already
\* shut down, read 10 pings and returned with the peer's frame after them
\* unread
C22_Witness ==
    /\ calls = <<"shutdown", "shutdown">>
    /\ ~closed
    /\ pc = "idle"
    /\ drained = DRAIN_MAX
    /\ Len(trace) = DRAIN_MAX + 2
    /\ \A i \in 3..Len(trace) : trace[i].st = "ok" /\ trace[i].kind = "Ping"
    /\ rx # <<>>

\* the handshake task of connection c has ended with a Connection
HasStream(c) == task[c].st = "done" /\ task[c].stream.some

\* how many times accept() has returned the Connection of c
TimesReturned(c) == Cardinality({ i \in 1..Len(returned) : returned[i].id = c })

\* C23: the Connection of a handshake that completed is returned by one
\* accept() call and no more: until then it stays in the pool, whatever
\* else the loop does (spawning the task of a new connection that won the
\* race, returning another Connection, joining tasks that gave none), and
\* an accept() in progress with such a Connection in the pool returns
C23_ReturnedOnce ==
    /\ [](\A c \in ConnIds :
            /\ TimesReturned(c) <= 1
            /\ HasStream(c) => (IF c \in futures THEN TimesReturned(c) = 0
                                ELSE TimesReturned(c) = 1)
            /\ TimesReturned(c) = 1 => HasStream(c))
    /\ [][ \A c \in ConnIds :
             (HasStream(c) /\ c \in futures) =>
                \/ c \in futures' /\ HasStream(c)'
                \/ /\ returned' = Append(returned, Returned(c))
                   /\ apc = "accepting" /\ apc' = "idle"
                   /\ futures' = futures \ {c} ]_vars
    /\ \A c \in ConnIds :
          (apc = "accepting" /\ HasStream(c) /\ c \in futures)
             ~> (TimesReturned(c) = 1 \/ (apc = "idle" /\ c \in futures))

\* two accept() calls returned two Connections, the second connection
\* first: the first one's handshake was spawned before, and its Connection
\* stayed in the pool over the return of the other call
C23_Witness ==
    /\ acceptCalls = 2 /\ apc = "idle"
    /\ Len(returned) = 2
    /\ returned[1].id = 2 /\ returned[2].id = 1
    /\ HasStream(1) /\ HasStream(2)
    /\ futures = {}

\* the writes of send_close() in the trace of the current (or last) call
CloseWrites == { i \in 1..Len(trace) : trace[i] = EvSendClose }

\* the close frame of RFC 6455 with no payload, as a client reads it
OneCloseFrame ==
    [ok |-> TRUE, fin |-> TRUE, opcode |-> 8, masked |-> FALSE,
     payload |-> <<>>, rest |-> <<>>]

\* C24: every close frame the server writes, in read() as the reply to the
\* peer's close frame and in shutdown(), is one whole control frame with
\* the fin bit set, opcode 8, the mask bit unset and a payload length of 0
C24_CloseFrameWellFormed ==
    \A i \in CloseWrites : ClientParse(trace[i].buf) = OneCloseFrame

====
